---- MODULE Spec2Model ----
(***************************************************************************)
(* OpenProject -> Google Calendar task synchronization                     *)
(* (src/synchronization.py, src/main.py).                                  *)
(*                                                                         *)
(* Python values are modelled as follows: str is a TLA+ string, int is an  *)
(* integer, dict is a function, list is a sequence, None is <<>> and an    *)
(* optional value x is <<x>>.  A Python exception is a record with         *)
(* ok = FALSE carrying the exception's name.                               *)
(***************************************************************************)
EXTENDS Integers, Sequences, FiniteSets, TLC

(***************************************************************************)
(* Bounds of the model                                                     *)
(***************************************************************************)
MaxTasks == 2

MaxEvents == 2

MaxRuns == 2

MaxFailures == 1

(***************************************************************************)
(* Python built-ins                                                        *)
(***************************************************************************)
None == <<>>

Some(x) == <<x>>

Truthy(o) == o # None /\ o[1] # ""

Ch(s, i) == SubSeq(s, i, i)

RECURSIVE Find(_, _, _)
Find(s, c, i) ==
    IF i > Len(s) THEN 0
    ELSE IF Ch(s, i) = c THEN i ELSE Find(s, c, i + 1)

\* str.split(sep) for a one-character separator
RECURSIVE Split(_, _)
Split(s, c) ==
    IF Find(s, c, 1) = 0 THEN <<s>>
    ELSE <<SubSeq(s, 1, Find(s, c, 1) - 1)>>
         \o Split(SubSeq(s, Find(s, c, 1) + 1, Len(s)), c)

Last(q) == q[Len(q)]

Whitespace == {" ", "\n", "\t", "\r"}

RECURSIVE LStrip(_)
LStrip(s) ==
    IF Len(s) > 0 /\ Ch(s, 1) \in Whitespace
    THEN LStrip(SubSeq(s, 2, Len(s))) ELSE s

RECURSIVE RStrip(_)
RStrip(s) ==
    IF Len(s) > 0 /\ Ch(s, Len(s)) \in Whitespace
    THEN RStrip(SubSeq(s, 1, Len(s) - 1)) ELSE s

\* str.strip()
Strip(s) == LStrip(RStrip(s))

DigitChars == <<"0", "1", "2", "3", "4", "5", "6", "7", "8", "9">>

IsDigit(c) == \E i \in 1..10 : DigitChars[i] = c

DigitVal(c) == (CHOOSE i \in 1..10 : DigitChars[i] = c) - 1

RECURSIVE DigitsVal(_, _)
DigitsVal(s, acc) ==
    IF Len(s) = 0 THEN acc
    ELSE DigitsVal(SubSeq(s, 2, Len(s)), acc * 10 + DigitVal(Ch(s, 1)))

\* int(str): surrounding whitespace and one sign are accepted, the rest
\* must be decimal digits; anything else raises ValueError
Signed(t) == Len(t) > 0 /\ Ch(t, 1) \in {"+", "-"}

ParseDigits(d, negative) ==
    IF Len(d) > 0 /\ \A i \in 1..Len(d) : IsDigit(Ch(d, i))
    THEN [ok |-> TRUE, v |-> IF negative THEN 0 - DigitsVal(d, 0) ELSE DigitsVal(d, 0)]
    ELSE [ok |-> FALSE, exc |-> "ValueError"]

ParseStripped(t) ==
    IF Signed(t) THEN ParseDigits(SubSeq(t, 2, Len(t)), Ch(t, 1) = "-")
    ELSE ParseDigits(t, FALSE)

ParseInt(s) == ParseStripped(Strip(s))

\* str(int) for a non-negative int
RECURSIVE IntToStr(_)
IntToStr(n) ==
    IF n < 10 THEN DigitChars[n + 1]
    ELSE IntToStr(n \div 10) \o DigitChars[(n % 10) + 1]

\* zero-padded decimal of width w, as datetime.isoformat() prints a field
RECURSIVE ZeroPad(_, _)
ZeroPad(n, w) ==
    IF Len(IntToStr(n)) >= w THEN IntToStr(n) ELSE "0" \o ZeroPad(n, w - 1)

(***************************************************************************)
(* Field mapper: parse_workpackages, parse_events, str_to_date,            *)
(* wp_to_event                                                             *)
(***************************************************************************)
HasKey(d, k) == k \in DOMAIN d

\* dict[key] = value
DictPut(d, k, v) == [x \in (DOMAIN d) \cup {k} |-> IF x = k THEN v ELSE d[x]]

EmptyDict == <<>>

\* lines 144-145 without the test of the first line
ExcludedWhenNull(elem) == elem.description.raw = None

\* lines 144-145: the work package is not synchronized
Excluded(elem) ==
    \/ elem.description.raw = None
    \/ Split(elem.description.raw[1], "\n")[1] = "!!!"

\* s[:-1]
DropLast(s) == SubSeq(s, 1, Len(s) - 1)

\* lines 165-170 where line 170 keeps the zone letter of createdAt
DueOfKeepingZone(elem) ==
    IF Truthy(elem.dueDate)
    THEN [due_date |-> elem.dueDate[1],
          due_hour |-> Strip(Last(Split(Last(Split(elem.description.raw[1], "\n")), "=")))]
    ELSE [due_date |-> Split(elem.createdAt, "T")[1],
          due_hour |-> Last(Split(elem.createdAt, "T"))]

\* lines 165-170: due date and due hour of one work package
DueOf(elem) ==
    IF Truthy(elem.dueDate)
    THEN [due_date |-> elem.dueDate[1],
          due_hour |-> Strip(Last(Split(Last(Split(elem.description.raw[1], "\n")), "=")))]
    ELSE [due_date |-> Split(elem.createdAt, "T")[1],
          due_hour |-> DropLast(Last(Split(elem.createdAt, "T")))]

\* lines 149-173: the body of the try block for one element
WpRecord(elem, due) ==
    [wp_id |-> elem.id,
     subject |-> Strip(elem.subject),
     description |-> elem.description.html,
     parent |-> IF Truthy(elem.links.parent.href)
                THEN Last(Split(elem.links.parent.href[1], "/"))
                     \o ":" \o elem.links.parent.title
                ELSE "No parent",
     assignee |-> IF Truthy(elem.links.assignee.href)
                  THEN elem.links.assignee.title
                  ELSE "Not assigned to anyone",
     due_date |-> due.due_date,
     due_hour |-> due.due_hour,
     updated_at |-> elem.updatedAt]

ParseWp(elem) ==
    IF ~HasKey(elem, "dueDate") THEN [ok |-> FALSE, exc |-> "KeyError"]
    ELSE [ok |-> TRUE, rec |-> WpRecord(elem, DueOf(elem))]

RECURSIVE ParseWpsFrom(_, _, _)
\* lines 141-175 where the except clause records nothing
ParseWpIntoDroppingError(acc, elem, r) ==
    IF Excluded(elem) THEN acc
    ELSE IF r.ok THEN [acc EXCEPT !.parsed_wps = DictPut(@, elem.id, r.rec)]
    ELSE acc

\* lines 141-175: one iteration of the loop
ParseWpInto(acc, elem, r) ==
    IF Excluded(elem) THEN acc
    ELSE IF r.ok THEN [acc EXCEPT !.parsed_wps = DictPut(@, elem.id, r.rec)]
    ELSE [acc EXCEPT !.err = Append(@, <<elem, r.exc>>)]

ParseWpsFrom(elems, k, acc) ==
    IF k > Len(elems) THEN acc
    ELSE ParseWpsFrom(elems, k + 1,
                      ParseWpInto(acc, elems[k],
                                  IF Excluded(elems[k]) THEN None
                                  ELSE ParseWp(elems[k])))

parse_workpackages(elems) ==
    ParseWpsFrom(elems, 1, [parsed_wps |-> EmptyDict, err |-> <<>>])

\* lines 208-219: the body of the try block for one event
\* lines 209-219 once the title, the body and the end time are split
EventRecord(event_id, summary, description, due, key) ==
    IF Len(description) < 2 \/ Len(due) < 2 THEN [ok |-> FALSE, exc |-> "IndexError"]
    ELSE IF ~key.ok THEN key
    ELSE [ok |-> TRUE,
          key |-> key.v,
          rec |-> [event_id |-> event_id,
                   wp_id |-> summary[1],
                   subject |-> Last(summary),
                   assignee |-> description[Len(description) - 1],
                   updated_at |-> Last(description),
                   due_date |-> due[1],
                   due_hour |-> due[2]]]

ParseEvent(elem) ==
    IF ~HasKey(elem, "summary") \/ ~HasKey(elem, "description")
       \/ ~HasKey(elem.end, "dateTime")
    THEN [ok |-> FALSE, exc |-> "KeyError"]
    ELSE EventRecord(elem.id, Split(elem.summary, ":"),
                     Split(elem.description, "\n"),
                     Split(elem.end.dateTime, "T"),
                     ParseInt(Split(elem.summary, ":")[1]))

RECURSIVE ParseEventsFrom(_, _, _)
\* lines 206-221: one iteration of the loop
ParseEventInto(acc, elem, r) ==
    IF r.ok THEN [acc EXCEPT !.parsed_events = DictPut(@, r.key, r.rec)]
    ELSE [acc EXCEPT !.err = Append(@, <<elem, r.exc>>)]

ParseEventsFrom(events, k, acc) ==
    IF k > Len(events) THEN acc
    ELSE ParseEventsFrom(events, k + 1,
                         ParseEventInto(acc, events[k], ParseEvent(events[k])))

\* events is a list here; parse_events(None) raises TypeError at line 206
parse_events(events) ==
    ParseEventsFrom(events, 1, [parsed_events |-> EmptyDict, err |-> <<>>])

IsLeap(y) == (y % 4 = 0 /\ y % 100 # 0) \/ y % 400 = 0

DaysInMonth(y, m) ==
    IF m = 2 THEN (IF IsLeap(y) THEN 29 ELSE 28)
    ELSE IF m \in {4, 6, 9, 11} THEN 30 ELSE 31

\* [int(x) for x in s.split(sep)]
Ints(parts) ==
    IF \A i \in 1..Len(parts) : ParseInt(parts[i]).ok
    THEN [ok |-> TRUE, v |-> [i \in 1..Len(parts) |-> ParseInt(parts[i]).v]]
    ELSE [ok |-> FALSE, exc |-> "ValueError"]

IntList(s, c) == Ints(Split(s, c))

\* datetime(year, month, day, hour, minute, second)
datetime(y, m, d, H, M, S) ==
    IF /\ y \in 1..9999 /\ m \in 1..12
       /\ d >= 1 /\ d <= DaysInMonth(y, m)
       /\ H \in 0..23 /\ M \in 0..59 /\ S \in 0..59
    THEN [ok |-> TRUE, y |-> y, m |-> m, d |-> d, H |-> H, M |-> M, S |-> S]
    ELSE [ok |-> FALSE, exc |-> "ValueError"]

\* lines 285-286 once both lists are built
DateOf(due_date, due_hour) ==
    IF ~due_date.ok \/ ~due_hour.ok THEN [ok |-> FALSE, exc |-> "ValueError"]
    ELSE IF Len(due_date.v) < 3 \/ Len(due_hour.v) < 3
    THEN [ok |-> FALSE, exc |-> "IndexError"]
    ELSE datetime(due_date.v[1], due_date.v[2], due_date.v[3],
                  due_hour.v[1], due_hour.v[2], due_hour.v[3])

str_to_date(date, hour) == DateOf(IntList(date, "-"), IntList(hour, ":"))

\* event_start + timedelta(hours=1)
PlusOneHour(t) ==
    IF t.H < 23 THEN [t EXCEPT !.H = t.H + 1]
    ELSE IF t.d < DaysInMonth(t.y, t.m) THEN [t EXCEPT !.H = 0, !.d = t.d + 1]
    ELSE IF t.m < 12 THEN [t EXCEPT !.H = 0, !.d = 1, !.m = t.m + 1]
    ELSE [t EXCEPT !.H = 0, !.d = 1, !.m = 1, !.y = t.y + 1]

\* datetime.astimezone().isoformat() of a naive datetime: the wall-clock
\* fields are kept and the local UTC offset is appended
IsoFormat(t, offset) ==
    ZeroPad(t.y, 4) \o "-" \o ZeroPad(t.m, 2) \o "-" \o ZeroPad(t.d, 2) \o "T"
    \o ZeroPad(t.H, 2) \o ":" \o ZeroPad(t.M, 2) \o ":" \o ZeroPad(t.S, 2)
    \o offset

Reminders ==
    [useDefault |-> FALSE,
     overrides |-> <<[method |-> "popup", minutes |-> 24 * 60],
                     [method |-> "popup", minutes |-> 30]>>]

\* lines 244-265 with a line break added between description and parent
EventBodyWithBreak(wp, event_start, offset) ==
    IF ~event_start.ok THEN event_start
    ELSE [ok |-> TRUE,
          event |->
            [summary |-> IntToStr(wp.wp_id) \o ":" \o wp.subject,
             description |-> wp.description \o "\n" \o "Parent=" \o wp.parent
                             \o "\n" \o wp.assignee \o "\n" \o wp.updated_at,
             start |-> [dateTime |-> IsoFormat(event_start, offset)],
             end |-> [dateTime |-> IsoFormat(PlusOneHour(event_start), offset)],
             reminders |-> Reminders]]

\* lines 244-265 once event_start is built
EventBody(wp, event_start, offset) ==
    IF ~event_start.ok THEN event_start
    ELSE [ok |-> TRUE,
          event |->
            [summary |-> IntToStr(wp.wp_id) \o ":" \o wp.subject,
             description |-> wp.description \o "Parent=" \o wp.parent \o "\n"
                             \o wp.assignee \o "\n" \o wp.updated_at,
             start |-> [dateTime |-> IsoFormat(event_start, offset)],
             end |-> [dateTime |-> IsoFormat(PlusOneHour(event_start), offset)],
             reminders |-> Reminders]]

wp_to_event(wp, offset) ==
    EventBody(wp, str_to_date(wp.due_date, wp.due_hour), offset)

(***************************************************************************)
(* Inputs: raw work packages of the OpenProject API and event resources    *)
(* of the calendar                                                         *)
(***************************************************************************)
U1 == "2024-02-01T10:00:00Z"

U2 == "2024-02-02T11:00:00Z"

NoLink == [href |-> None, title |-> ""]

RawTask(subject, raw, due, created, updated, parent, assignee) ==
    [subject |-> subject,
     description |-> [raw |-> raw, html |-> "<p>Draft</p>"],
     links |-> [parent |-> parent, assignee |-> assignee],
     dueDate |-> due, createdAt |-> created, updatedAt |-> updated]

Alice == [href |-> Some("/api/v3/users/4"), title |-> "Alice"]

Top == [href |-> Some("/api/v3/work_packages/12"), title |-> "Top"]

\* a task with a due date and a dueHour line
TaskDue == RawTask("Write report", Some("Draft\ndueHour=08:15:00"),
                   Some("2024-03-01"), "2024-01-02T09:00:00Z", U1, Top, Alice)

\* no due date; the subject has a colon and surrounding blanks
TaskNoDue == RawTask(" Plan: Q3 ", Some("Draft\ndueHour=14:30:00"),
                     None, "2024-01-02T23:30:00Z", U2, NoLink, NoLink)

TaskNullDescription == RawTask("Hidden", None, Some("2024-03-01"),
                               "2024-01-02T09:00:00Z", U1, NoLink, Alice)

TaskMarked == RawTask("Private", Some("!!!\nDraft\ndueHour=08:15:00"),
                      Some("2024-03-01"), "2024-01-02T09:00:00Z", U2, NoLink, Alice)

\* a due date but no dueHour line
TaskNoDueHour == RawTask("Call", Some("Draft"), Some("2024-03-01"),
                         "2024-01-02T09:00:00Z", U2, NoLink, Alice)

\* a dueHour line followed by a blank; due before the lower bound of
\* read_events
TaskBlankAfterHour == RawTask("Review", Some("Draft\ndueHour=23:30:00 "),
                              Some("2019-12-31"), "2019-12-02T09:00:00Z", U2,
                              Top, NoLink)

\* a milestone of OpenProject has a "date" and no "dueDate"
Milestone ==
    [subject |-> "Release",
     description |-> [raw |-> Some("Draft"), html |-> "<p>Draft</p>"],
     links |-> [parent |-> NoLink, assignee |-> Alice],
     date |-> Some("2024-03-01"),
     createdAt |-> "2024-01-02T09:00:00Z", updatedAt |-> U1]

WithId(shape, id) == [k \in (DOMAIN shape) \cup {"id"} |->
                        IF k = "id" THEN id ELSE shape[k]]

\* the work packages a project can hold, each with its id
TaskPool ==
    <<WithId(TaskDue, 1), WithId(TaskNoDue, 2), WithId(TaskMarked, 3),
      WithId(Milestone, 7), WithId(TaskNoDueHour, 4),
      WithId(TaskNullDescription, 5), WithId(TaskBlankAfterHour, 6)>>

\* an event as this program creates it for work package wp
EventOf(wp, subject, updated, startTime, endTime) ==
    [summary |-> IntToStr(wp) \o ":" \o subject,
     description |-> "<p>Draft</p>Parent=No parent\nAlice\n" \o updated,
     start |-> [dateTime |-> startTime],
     end |-> [dateTime |-> endTime]]

\* the events a calendar can hold: two events of work package 1, the
\* second written after an edit, an event of work package 3, one of work
\* package 4, and an event made by hand, without description and lasting
\* the whole day
EventPool ==
    <<WithId(EventOf(1, "Write report", U1, "2024-03-01T08:15:00+03:00",
                     "2024-03-01T09:15:00+03:00"), "e1"),
      WithId(EventOf(1, "Write report", U2, "2024-03-02T08:15:00+03:00",
                     "2024-03-02T09:15:00+03:00"), "e2"),
      WithId(EventOf(3, "Private", U1, "2024-05-01T08:15:00+03:00",
                     "2024-05-01T09:15:00+03:00"), "e3"),
      WithId(EventOf(4, "Call", U1, "2024-03-01T08:15:00+03:00",
                     "2024-03-01T09:15:00+03:00"), "e4"),
      [id |-> "e5", summary |-> "Meeting", start |-> [date |-> "2024-03-01"],
       end |-> [date |-> "2024-03-02"]]>>

\* the elements of pool at the positions in S, in the order of the pool
RECURSIVE Pick(_, _, _)
Pick(pool, S, k) ==
    IF k > Len(pool) THEN <<>>
    ELSE (IF k \in S THEN <<pool[k]>> ELSE <<>>) \o Pick(pool, S, k + 1)

\* the lists of at most n elements of pool
SubLists(pool, n) ==
    {Pick(pool, S, 1) : S \in {T \in SUBSET (1..Len(pool)) : Cardinality(T) <= n}}

\* the UTC offset of the machine that runs the program
LocalOffset == "+03:00"

(***************************************************************************)
(* The calendar sink (Google Calendar API) as the program calls it         *)
(***************************************************************************)
\* the default of read_events' parameter time, as <<date, time of day>>
TimeMin == <<20201011, 0>>

\* <<YYYYMMDD, HHMMSS>> of an RFC 3339 timestamp or of a date; the UTC
\* offset of the timestamp is not taken into account
Instant(t) ==
    <<ParseInt(SubSeq(t, 1, 4)).v * 10000 + ParseInt(SubSeq(t, 6, 7)).v * 100
        + ParseInt(SubSeq(t, 9, 10)).v,
      IF Len(t) < 19 THEN 0
      ELSE ParseInt(SubSeq(t, 12, 13)).v * 10000
           + ParseInt(SubSeq(t, 15, 16)).v * 100 + ParseInt(SubSeq(t, 18, 19)).v>>

\* events().list(timeMin=time): the events that end after timeMin
After(t, u) == t[1] > u[1] \/ (t[1] = u[1] /\ t[2] > u[2])

EndsAfterTimeMin(e) ==
    After(Instant(IF HasKey(e.end, "dateTime") THEN e.end.dateTime ELSE e.end.date),
          TimeMin)

ListEvents(cal) == SelectSeq(cal, EndsAfterTimeMin)

\* events().insert(body=event)
InsertEvent(cal, id, body) == Append(cal, WithId(body, id))

\* events().delete(eventId=event_id)
DeleteEvent(cal, id) == SelectSeq(cal, LAMBDA e : e.id # id)

\* events().update(eventId=event_id, body=tmp)
UpdateEvent(cal, id, body) ==
    [i \in 1..Len(cal) |-> IF cal[i].id = id THEN WithId(body, id) ELSE cal[i]]

(***************************************************************************)
(* Reconciler: the partition of synchronize_wps                            *)
(***************************************************************************)
\* line 405
ToCreateSet(wps_on_openproject, wps_on_calendar) ==
    wps_on_openproject \ wps_on_calendar

\* line 406 without the difference
ToDeleteSetWhole(wps_on_openproject, wps_on_calendar) == wps_on_calendar

\* line 406
ToDeleteSet(wps_on_openproject, wps_on_calendar) ==
    wps_on_calendar \ wps_on_openproject

\* line 407
MayUpdateSet(wps_on_openproject, wps_on_calendar) ==
    wps_on_calendar \cap wps_on_openproject

\* line 371
NeedsUpdate(wp, parsed_event) == wp.updated_at # parsed_event.updated_at

(***************************************************************************)
(* State                                                                   *)
(***************************************************************************)
VARIABLES
    workpackages,    \* the elements that read_workpackages returns
    calendar,        \* the events that the calendar holds
    run,             \* the number of the current run of main
    pc,              \* the position of main
    exc,             \* the exception that ended the run, or None
    parsed_wps, op_err,
    all_events,
    parsed_events, gc_err,
    to_create_set, to_delete_set, may_update_set,
    todo_create, todo_delete, todo_update,   \* ids the loops have yet to visit
    to_create_err, to_delete_err, may_update_err,
    visited,         \* history: the ids visited by each loop, in order
    calls,           \* history: the calls made to the calendar sink
    failures,        \* history: the number of sink calls that failed
    next_id          \* the number of the next event id the sink hands out

vars ==
    <<workpackages, calendar, run, pc, exc, parsed_wps, op_err, all_events,
      parsed_events, gc_err, to_create_set, to_delete_set, may_update_set,
      todo_create, todo_delete, todo_update, to_create_err, to_delete_err,
      may_update_err, visited, calls, failures, next_id>>

inputs == <<workpackages>>

mapped == <<parsed_wps, op_err, all_events, parsed_events, gc_err>>

partition == <<to_create_set, to_delete_set, may_update_set>>

loops == <<todo_create, todo_delete, todo_update>>

errors == <<to_create_err, to_delete_err, may_update_err>>

NoVisits == [create |-> <<>>, delete |-> <<>>, update |-> <<>>]

\* the state of main before its first statement
FreshRun ==
    /\ pc = "start"
    /\ exc = None
    /\ parsed_wps = EmptyDict /\ op_err = <<>>
    /\ all_events = None
    /\ parsed_events = EmptyDict /\ gc_err = <<>>
    /\ to_create_set = {} /\ to_delete_set = {} /\ may_update_set = {}
    /\ todo_create = {} /\ todo_delete = {} /\ todo_update = {}
    /\ to_create_err = <<>> /\ to_delete_err = <<>> /\ may_update_err = <<>>
    /\ visited = NoVisits

Init ==
    /\ workpackages \in SubLists(TaskPool, MaxTasks)
    /\ calendar \in SubLists(EventPool, MaxEvents)
    /\ run = 1
    /\ FreshRun
    /\ calls = <<>>
    /\ failures = 0
    /\ next_id = 1

\* the sink answers a call or fails it
Outcomes == {TRUE} \cup (IF failures < MaxFailures THEN {FALSE} ELSE {})

SinkError == "HttpError"

(***************************************************************************)
(* main: one action per statement of the pipeline, one per loop iteration  *)
(* of synchronize_wps                                                      *)
(***************************************************************************)
\* main.py line 72
ParseWorkpackages ==
    /\ pc = "start"
    /\ parsed_wps' = parse_workpackages(workpackages).parsed_wps
    /\ op_err' = parse_workpackages(workpackages).err
    /\ pc' = "wps_parsed"
    /\ UNCHANGED <<inputs, calendar, run, exc, all_events, parsed_events, gc_err,
                   partition, loops, errors, visited, calls, failures, next_id>>

\* a call to the sink: the work package it is made for, the event it is
\* addressed to and its body are optional
Call(op, wp_id, event_id, body, ok) ==
    [run |-> run, op |-> op, wp_id |-> wp_id, event_id |-> event_id,
     body |-> body, ok |-> ok]

\* main.py line 79: read_events returns the list, or prints the error and
\* returns None
ReadEvents ==
    /\ pc = "wps_parsed"
    /\ \E ok \in Outcomes :
          /\ all_events' = IF ok THEN Some(ListEvents(calendar)) ELSE None
          /\ failures' = IF ok THEN failures ELSE failures + 1
          /\ calls' = Append(calls, Call("list", None, None, None, ok))
    /\ pc' = "events_read"
    /\ UNCHANGED <<inputs, calendar, run, exc, parsed_wps, op_err, parsed_events,
                   gc_err, partition, loops, errors, visited, next_id>>

\* main.py line 81: the for statement of parse_events raises TypeError on None
ParseEvents ==
    /\ pc = "events_read"
    /\ IF all_events = None
       THEN /\ pc' = "crashed"
            /\ exc' = Some("TypeError")
            /\ UNCHANGED <<parsed_events, gc_err>>
       ELSE /\ parsed_events' = parse_events(all_events[1]).parsed_events
            /\ gc_err' = parse_events(all_events[1]).err
            /\ pc' = "events_parsed"
            /\ UNCHANGED exc
    /\ UNCHANGED <<inputs, calendar, run, parsed_wps, op_err, all_events,
                   partition, loops, errors, visited, calls, failures, next_id>>

\* synchronize_wps lines 402-408
SynchronizeBegin ==
    /\ pc = "events_parsed"
    /\ to_create_set' = ToCreateSet(DOMAIN parsed_wps, DOMAIN parsed_events)
    /\ to_delete_set' = ToDeleteSet(DOMAIN parsed_wps, DOMAIN parsed_events)
    /\ may_update_set' = MayUpdateSet(DOMAIN parsed_wps, DOMAIN parsed_events)
    /\ todo_create' = to_create_set'
    /\ todo_delete' = to_delete_set'
    /\ todo_update' = may_update_set'
    /\ to_create_err' = <<>> /\ to_delete_err' = <<>> /\ may_update_err' = <<>>
    /\ pc' = "sync"
    /\ UNCHANGED <<inputs, calendar, run, exc, mapped, visited, calls, failures,
                   next_id>>

\* an exception leaves synchronize_wps and main
Raise(e) ==
    /\ pc' = "crashed"
    /\ exc' = Some(e)
    /\ UNCHANGED <<calendar, loops, errors, visited, calls, failures, next_id>>

\* lines 411-413 with to_create, lines 310-318
\* to_create without its try statement: the error of the sink leaves the loop
to_create_unguarded(wp_id, event) ==
    IF ~event.ok THEN Raise(event.exc)
    ELSE \E ok \in Outcomes :
           /\ calls' = Append(calls, Call("insert", Some(wp_id), None, Some(event.event), ok))
           /\ calendar' = IF ok
                          THEN InsertEvent(calendar, "n" \o IntToStr(next_id),
                                           event.event)
                          ELSE calendar
           /\ next_id' = IF ok THEN next_id + 1 ELSE next_id
           /\ failures' = IF ok THEN failures ELSE failures + 1
           /\ to_create_err' = IF ok THEN Append(to_create_err, None) ELSE to_create_err
           /\ todo_create' = IF ok THEN todo_create \ {wp_id} ELSE todo_create
           /\ visited' = IF ok THEN [visited EXCEPT !.create = Append(@, wp_id)]
                         ELSE visited
           /\ pc' = IF ok THEN pc ELSE "crashed"
           /\ exc' = IF ok THEN exc ELSE Some(SinkError)
           /\ UNCHANGED <<todo_delete, todo_update, to_delete_err, may_update_err>>

\* to_create, lines 310-318, with the event that line 311 built
to_create(wp_id, event) ==
    IF ~event.ok THEN Raise(event.exc)
    ELSE \E ok \in Outcomes :
           /\ calls' = Append(calls, Call("insert", Some(wp_id), None, Some(event.event), ok))
           /\ calendar' = IF ok
                          THEN InsertEvent(calendar, "n" \o IntToStr(next_id),
                                           event.event)
                          ELSE calendar
           /\ next_id' = IF ok THEN next_id + 1 ELSE next_id
           /\ failures' = IF ok THEN failures ELSE failures + 1
           /\ to_create_err' = Append(to_create_err,
                                      IF ok THEN None ELSE Some(SinkError))
           /\ todo_create' = todo_create \ {wp_id}
           /\ visited' = [visited EXCEPT !.create = Append(@, wp_id)]
           /\ UNCHANGED <<pc, exc, todo_delete, todo_update, to_delete_err,
                          may_update_err>>

\* the id a for statement takes from the ids it has yet to visit: CPython
\* iterates a set of small non-negative ints in increasing order
NextOf(ids) == CHOOSE wp_id \in ids : \A other \in ids : wp_id <= other

\* lines 411-413
ToCreate(wp_id) ==
    /\ pc = "sync"
    /\ wp_id \in todo_create
    /\ wp_id = NextOf(todo_create)
    /\ to_create(wp_id, wp_to_event(parsed_wps[wp_id], LocalOffset))
    /\ UNCHANGED <<inputs, run, mapped, partition>>

\* to_delete, lines 340-347
to_delete(wp_id, event_id) ==
    \E ok \in Outcomes :
       /\ calls' = Append(calls, Call("delete", Some(wp_id), Some(event_id), None, ok))
       /\ calendar' = IF ok THEN DeleteEvent(calendar, event_id) ELSE calendar
       /\ failures' = IF ok THEN failures ELSE failures + 1
       /\ to_delete_err' = Append(to_delete_err, IF ok THEN None ELSE Some(SinkError))

\* lines 415-417
ToDelete(wp_id) ==
    /\ pc = "sync"
    /\ todo_create = {}
    /\ wp_id \in todo_delete
    /\ wp_id = NextOf(todo_delete)
    /\ to_delete(wp_id, parsed_events[wp_id].event_id)
    /\ todo_delete' = todo_delete \ {wp_id}
    /\ visited' = [visited EXCEPT !.delete = Append(@, wp_id)]
    /\ UNCHANGED <<inputs, run, pc, exc, mapped, partition, todo_create, todo_update,
                   to_create_err, may_update_err, next_id>>

\* line 422 and the loop's bookkeeping
Updated(wp_id, err) ==
    /\ may_update_err' = Append(may_update_err, err)
    /\ todo_update' = todo_update \ {wp_id}
    /\ visited' = [visited EXCEPT !.update = Append(@, wp_id)]
    /\ UNCHANGED <<pc, exc, todo_create, todo_delete, to_create_err,
                   to_delete_err, next_id>>

\* may_update, lines 370-380; tmp is the event of line 372
may_update(wp_id, wp, parsed_event, tmp) ==
    IF ~NeedsUpdate(wp, parsed_event)
    THEN /\ Updated(wp_id, None)
         /\ UNCHANGED <<calendar, calls, failures>>
    ELSE IF ~tmp.ok THEN Raise(tmp.exc)
    ELSE \E ok \in Outcomes :
           /\ calls' = Append(calls, Call("update", Some(wp_id), Some(parsed_event.event_id),
                                          Some(tmp.event), ok))
           /\ calendar' = IF ok
                          THEN UpdateEvent(calendar, parsed_event.event_id, tmp.event)
                          ELSE calendar
           /\ failures' = IF ok THEN failures ELSE failures + 1
           /\ Updated(wp_id, IF ok THEN None ELSE Some(SinkError))

\* lines 419-422
MayUpdate(wp_id) ==
    /\ pc = "sync"
    /\ todo_create = {} /\ todo_delete = {}
    /\ wp_id \in todo_update
    /\ wp_id = NextOf(todo_update)
    /\ may_update(wp_id, parsed_wps[wp_id], parsed_events[wp_id],
                  wp_to_event(parsed_wps[wp_id], LocalOffset))
    /\ UNCHANGED <<inputs, run, mapped, partition>>

\* lines 424-427 and main.py lines 83-95; save_logs only reports
SynchronizeReturn ==
    /\ pc = "sync"
    /\ todo_create = {} /\ todo_delete = {} /\ todo_update = {}
    /\ pc' = "done"
    /\ UNCHANGED <<inputs, calendar, run, exc, mapped, partition, loops, errors,
                   visited, calls, failures, next_id>>

\* the program is started again; nothing is kept between two runs
NextRun ==
    /\ pc = "done"
    /\ run < MaxRuns
    /\ run' = run + 1
    /\ pc' = "start"
    /\ exc' = None
    /\ parsed_wps' = EmptyDict /\ op_err' = <<>>
    /\ all_events' = None
    /\ parsed_events' = EmptyDict /\ gc_err' = <<>>
    /\ to_create_set' = {} /\ to_delete_set' = {} /\ may_update_set' = {}
    /\ todo_create' = {} /\ todo_delete' = {} /\ todo_update' = {}
    /\ to_create_err' = <<>> /\ to_delete_err' = <<>> /\ may_update_err' = <<>>
    /\ visited' = NoVisits
    /\ UNCHANGED <<inputs, calendar, calls, failures, next_id>>

Next ==
    \/ ParseWorkpackages
    \/ ReadEvents
    \/ ParseEvents
    \/ SynchronizeBegin
    \/ \E wp_id \in todo_create : ToCreate(wp_id)
    \/ \E wp_id \in todo_delete : ToDelete(wp_id)
    \/ \E wp_id \in todo_update : MayUpdate(wp_id)
    \/ SynchronizeReturn
    \/ NextRun

Spec == Init /\ [][Next]_vars

(***************************************************************************)
(* The three loops of synchronize_wps run concurrently: an iteration of    *)
(* any loop can be the next step                                           *)
(***************************************************************************)
\* lines 411-413, whatever the other loops have done
ToCreateAny(wp_id) ==
    /\ pc = "sync"
    /\ wp_id \in todo_create
    /\ to_create(wp_id, wp_to_event(parsed_wps[wp_id], LocalOffset))
    /\ UNCHANGED <<inputs, run, mapped, partition>>

\* lines 415-417, whatever the other loops have done
ToDeleteAny(wp_id) ==
    /\ pc = "sync"
    /\ wp_id \in todo_delete
    /\ to_delete(wp_id, parsed_events[wp_id].event_id)
    /\ todo_delete' = todo_delete \ {wp_id}
    /\ visited' = [visited EXCEPT !.delete = Append(@, wp_id)]
    /\ UNCHANGED <<inputs, run, pc, exc, mapped, partition, todo_create, todo_update,
                   to_create_err, may_update_err, next_id>>

\* lines 419-422, whatever the other loops have done
MayUpdateAny(wp_id) ==
    /\ pc = "sync"
    /\ wp_id \in todo_update
    /\ may_update(wp_id, parsed_wps[wp_id], parsed_events[wp_id],
                  wp_to_event(parsed_wps[wp_id], LocalOffset))
    /\ UNCHANGED <<inputs, run, mapped, partition>>

NextInterleaved ==
    \/ ParseWorkpackages
    \/ ReadEvents
    \/ ParseEvents
    \/ SynchronizeBegin
    \/ \E wp_id \in todo_create : ToCreateAny(wp_id)
    \/ \E wp_id \in todo_delete : ToDeleteAny(wp_id)
    \/ \E wp_id \in todo_update : MayUpdateAny(wp_id)
    \/ SynchronizeReturn

SpecInterleaved == Init /\ [][NextInterleaved]_vars

\* a sink call without its outcome and its run
Sig(op, wp_id, event_id, body) ==
    [op |-> op, wp_id |-> wp_id, event_id |-> event_id, body |-> body]

\* the ids of ids whose payload wp_to_event cannot build
Unbuildable(wps, ids) == {id \in ids : ~wp_to_event(wps[id], LocalOffset).ok}

\* the ids a loop over ids visits before the first id of bad ends the run
Before(ids, bad) ==
    IF bad = {} THEN ids ELSE {id \in ids : id < NextOf(bad)}

\* the calls of the loop of lines 411-413 over ids
CreateSigs(wps, ids) ==
    {Sig("insert", Some(id), None,
         Some(wp_to_event(wps[id], LocalOffset).event)) : id \in ids}

\* the calls of the loop of lines 415-417 over ids
DeleteSigs(events, ids) ==
    {Sig("delete", Some(id), Some(events[id].event_id), None) : id \in ids}

Changed(wps, events, ids) == {id \in ids : NeedsUpdate(wps[id], events[id])}

\* the calls of the loop of lines 419-422 over ids
UpdateSigs(wps, events, ids) ==
    {Sig("update", Some(id), Some(events[id].event_id),
         Some(wp_to_event(wps[id], LocalOffset).event)) :
       id \in Changed(wps, events, ids)}

\* lines 411-422 in the order of the code, for the three sets c, d and u
SequentialFrom(wps, events, c, d, u) ==
    IF Unbuildable(wps, c) # {}
    THEN CreateSigs(wps, Before(c, Unbuildable(wps, c)))
    ELSE CreateSigs(wps, c) \cup DeleteSigs(events, d)
         \cup UpdateSigs(wps, events,
                         Before(u, Unbuildable(wps, Changed(wps, events, u))))

\* the sink calls that synchronize_wps issues for wps and events
SequentialCalls(wps, events) ==
    SequentialFrom(wps, events,
                   ToCreateSet(DOMAIN wps, DOMAIN events),
                   ToDeleteSet(DOMAIN wps, DOMAIN events),
                   MayUpdateSet(DOMAIN wps, DOMAIN events))

RECURSIVE CreatedAll(_, _, _, _)
\* the calendar after the loop of lines 411-413 over ids, every insert
\* applied; n is the number of the next event id
CreatedAll(cal, wps, ids, n) ==
    IF ids = {} THEN cal
    ELSE CreatedAll(InsertEvent(cal, "n" \o IntToStr(n),
                                wp_to_event(wps[NextOf(ids)], LocalOffset).event),
                    wps, ids \ {NextOf(ids)}, n + 1)

RECURSIVE DeletedAll(_, _, _)
\* the calendar after the loop of lines 415-417 over ids, every delete
\* applied
DeletedAll(cal, events, ids) ==
    IF ids = {} THEN cal
    ELSE DeletedAll(DeleteEvent(cal, events[NextOf(ids)].event_id), events,
                    ids \ {NextOf(ids)})

RECURSIVE UpdatedAll(_, _, _, _)
\* the calendar after the loop of lines 419-422 over the changed ids, every
\* update applied
UpdatedAll(cal, wps, events, ids) ==
    IF ids = {} THEN cal
    ELSE UpdatedAll(UpdateEvent(cal, events[NextOf(ids)].event_id,
                                wp_to_event(wps[NextOf(ids)], LocalOffset).event),
                    wps, events, ids \ {NextOf(ids)})

\* the calendar after lines 411-422 in the order of the code
SequentialCalendarFrom(cal, wps, events, c, d, u) ==
    IF Unbuildable(wps, c) # {}
    THEN CreatedAll(cal, wps, Before(c, Unbuildable(wps, c)), 1)
    ELSE UpdatedAll(DeletedAll(CreatedAll(cal, wps, c, 1), events, d),
                    wps, events,
                    Before(Changed(wps, events, u),
                           Unbuildable(wps, Changed(wps, events, u))))

\* the calendar cal after synchronize_wps for wps and events, every sink
\* call applied
SequentialCalendar(cal, wps, events) ==
    SequentialCalendarFrom(cal, wps, events,
                           ToCreateSet(DOMAIN wps, DOMAIN events),
                           ToDeleteSet(DOMAIN wps, DOMAIN events),
                           MayUpdateSet(DOMAIN wps, DOMAIN events))

TypeOK ==
    /\ pc \in {"start", "wps_parsed", "events_read", "events_parsed", "sync",
               "done", "crashed"}
    /\ run \in 1..MaxRuns
    /\ Len(to_create_err) = Len(visited.create)

(***************************************************************************)
(* Properties                                                              *)
(***************************************************************************)
\* synchronize_wps has computed its three sets
Partitioned == pc \in {"sync", "done"} \/ (pc = "crashed" /\ all_events # None)

\* C1: the sets to create and to update together are the ids of the
\* parsed work packages, the sets to delete and to update together are the
\* ids of the parsed events, and the three sets are pairwise disjoint.
PartitionComplete ==
    Partitioned =>
        /\ to_create_set \cup may_update_set = DOMAIN parsed_wps
        /\ to_delete_set \cup may_update_set = DOMAIN parsed_events
        /\ to_create_set \cap to_delete_set = {}
        /\ to_create_set \cap may_update_set = {}
        /\ to_delete_set \cap may_update_set = {}

PartitionWitness ==
    /\ pc = "sync"
    /\ to_create_set # {} /\ to_delete_set # {} /\ may_update_set # {}

\* the calls of the current run that update the event of work package id
UpdateCallsFor(id) ==
    {i \in 1..Len(calls) : /\ calls[i].run = run
                           /\ calls[i].op = "update"
                           /\ calls[i].wp_id = Some(id)}

\* the entry of may_update_err for work package id, None when there is none
UpdateErrorOf(id) ==
    IF \E j \in 1..Len(visited.update) : visited.update[j] = id
    THEN may_update_err[CHOOSE j \in 1..Len(visited.update) : visited.update[j] = id]
    ELSE None

UpdateCallIs(call, parsed_event, tmp) ==
    /\ tmp.ok
    /\ call.event_id = Some(parsed_event.event_id)
    /\ call.body = Some(tmp.event)

\* C2: once a run of synchronize_wps is over, every id with a work package
\* and an event has no update call and no recorded failure when the two
\* updated_at strings are equal, and exactly one update call, addressed to
\* the event's event_id with the payload of wp_to_event, when they differ.
UpdateExactlyWhenChanged ==
    (pc = "done" \/ (pc = "crashed" /\ all_events # None)) =>
        \A id \in (DOMAIN parsed_wps) \cap (DOMAIN parsed_events) :
            IF parsed_wps[id].updated_at = parsed_events[id].updated_at
            THEN UpdateCallsFor(id) = {} /\ UpdateErrorOf(id) = None
            ELSE /\ Cardinality(UpdateCallsFor(id)) = 1
                 /\ \A i \in UpdateCallsFor(id) :
                       UpdateCallIs(calls[i], parsed_events[id],
                                    wp_to_event(parsed_wps[id], LocalOffset))

Todo == todo_create \cup todo_delete \cup todo_update

\* the error list of the phase of the call grew by one error, the others
\* are unchanged
RecordedInOwnPhase(call) ==
    /\ IF call.op = "insert"
       THEN /\ Len(to_create_err') = Len(to_create_err) + 1
            /\ Last(to_create_err') # None
       ELSE to_create_err' = to_create_err
    /\ IF call.op = "delete"
       THEN /\ Len(to_delete_err') = Len(to_delete_err) + 1
            /\ Last(to_delete_err') # None
       ELSE to_delete_err' = to_delete_err
    /\ IF call.op = "update"
       THEN /\ Len(may_update_err') = Len(may_update_err) + 1
            /\ Last(may_update_err') # None
       ELSE may_update_err' = may_update_err

Visits(q, ids) ==
    /\ {q[j] : j \in 1..Len(q)} = ids
    /\ Len(q) = Cardinality(ids)

\* C3: a failed insert, delete or update leaves synchronize_wps in its loop
\* with only the failed id taken off the ids to visit, is recorded in the
\* error list of its own phase, and changes nothing on the calendar; when
\* synchronize_wps returns, every id of the three sets was visited once.
SinkFailureIsolated ==
    [][/\ (pc = "sync" /\ failures' > failures) =>
             /\ pc' = "sync" /\ exc' = exc
             /\ calendar' = calendar
             /\ SubSeq(calls', 1, Len(calls)) = calls
             /\ Last(calls').wp_id # None
             /\ todo_create' = todo_create \ {Last(calls').wp_id[1]}
             /\ todo_delete' = todo_delete \ {Last(calls').wp_id[1]}
             /\ todo_update' = todo_update \ {Last(calls').wp_id[1]}
             /\ Cardinality(Todo') = Cardinality(Todo) - 1
             /\ RecordedInOwnPhase(Last(calls'))
       /\ (pc = "sync" /\ pc' = "done") =>
             /\ Visits(visited.create, to_create_set)
             /\ Visits(visited.delete, to_delete_set)
             /\ Visits(visited.update, may_update_set)
      ]_vars

\* a run ended after a sink call failed and a later call for another id
\* succeeded
SinkFailureWitness ==
    /\ pc = "done"
    /\ \E i, j \in 1..Len(calls) :
          /\ i < j
          /\ calls[i].run = run /\ calls[j].run = run
          /\ calls[i].op # "list" /\ ~calls[i].ok
          /\ calls[j].ok /\ calls[j].wp_id # calls[i].wp_id

\* the description is null or its first line is the marker
NeverSync(elem) ==
    \/ elem.description.raw = None
    \/ elem.description.raw[1] = "!!!"
    \/ /\ Len(elem.description.raw[1]) > 3
       /\ SubSeq(elem.description.raw[1], 1, 4) = "!!!\n"

NoRecordNoError(elem) ==
    /\ elem.id \notin DOMAIN parsed_wps
    /\ \A j \in 1..Len(op_err) : op_err[j][1] # elem

CallsFor(id) == {i \in 1..Len(calls) : calls[i].wp_id = Some(id)}

\* C4 as stated: a work package that is never synchronized has no parsed
\* record, no entry in the error list and no sink call of any kind.
ExcludedTaskNoSinkCall ==
    \A k \in 1..Len(workpackages) :
        NeverSync(workpackages[k]) =>
            /\ NoRecordNoError(workpackages[k])
            /\ CallsFor(workpackages[k].id) = {}

\* C4 amended: a work package that is never synchronized has no parsed
\* record, no entry in the error list and no insert or update call; the
\* only sink call made for its id is the delete of an event of that id.
ExcludedTaskOnlyDeleted ==
    \A k \in 1..Len(workpackages) :
        NeverSync(workpackages[k]) =>
            /\ NoRecordNoError(workpackages[k])
            /\ \A i \in CallsFor(workpackages[k].id) : calls[i].op = "delete"

ExcludedTaskWitness ==
    /\ pc = "done"
    /\ \E k \in 1..Len(workpackages) :
          /\ NeverSync(workpackages[k])
          /\ workpackages[k].description.raw # None
          /\ \E i \in CallsFor(workpackages[k].id) : calls[i].ok

\* the event resource the calendar keeps for a payload of wp_to_event
Stored(event) ==
    [id |-> "stored", summary |-> event.summary,
     description |-> event.description, end |-> event.end]

\* the parsed event has the fields of the parsed work package; the id,
\* which parse_events leaves as text, is compared by its decimal digits
SameFields(W, rec) ==
    /\ rec.wp_id = IntToStr(W.wp_id)
    /\ rec.subject = W.subject
    /\ rec.assignee = W.assignee
    /\ rec.updated_at = W.updated_at
    /\ rec.due_date = W.due_date
    /\ rec.due_hour = W.due_hour

RecoveredBy(W, back) ==
    /\ HasKey(back.parsed_events, W.wp_id)
    /\ SameFields(W, back.parsed_events[W.wp_id])

RoundTripOf(W, built) ==
    built.ok => RecoveredBy(W, parse_events(<<Stored(built.event)>>))

\* C5: for every parsed work package W whose payload wp_to_event builds,
\* parse_events of the event with that summary, description and end time
\* gives a record under key W.wp_id with the wp_id, subject, assignee,
\* updated_at, due_date and due_hour of W.
RoundTrip ==
    \A id \in DOMAIN parsed_wps :
        RoundTripOf(parsed_wps[id], wp_to_event(parsed_wps[id], LocalOffset))

\* C6: in a second run of main that follows a first run in which the sink
\* applied every call, and in which the sink still applies every call, the
\* sets to create and to delete are empty and no update call is made.
SecondRunIdle ==
    (run = 2 /\ failures = 0 /\ Partitioned) =>
        /\ to_create_set = {}
        /\ to_delete_set = {}
        /\ \A i \in 1..Len(calls) :
              calls[i].run = 2 => calls[i].op # "update"

TwoDigits(s) == Len(s) = 2 /\ IsDigit(Ch(s, 1)) /\ IsDigit(Ch(s, 2))

\* HH:MM:SS
HourForm(s) ==
    /\ Len(s) = 8
    /\ TwoDigits(SubSeq(s, 1, 2)) /\ Ch(s, 3) = ":"
    /\ TwoDigits(SubSeq(s, 4, 5)) /\ Ch(s, 6) = ":"
    /\ TwoDigits(SubSeq(s, 7, 8))

RECURSIVE LastIndexOf(_, _, _)
\* the last position up to k at which s has the character c, 0 when none
LastIndexOf(s, c, k) ==
    IF k = 0 THEN 0
    ELSE IF Ch(s, k) = c THEN k
    ELSE LastIndexOf(s, c, k - 1)

\* the text of s after the last c, all of s when it has no c
AfterLast(s, c) == SubSeq(s, LastIndexOf(s, c, Len(s)) + 1, Len(s))

LastLine(raw) == AfterLast(raw, "\n")

\* the last line is dueHour=HH:MM:SS, blanks around it allowed
DueHourLine(line) ==
    /\ Len(line) > 8
    /\ SubSeq(line, 1, 8) = "dueHour="
    /\ HourForm(SubSeq(line, 9, Len(line)))

\* a synchronized work package with a due date and without a dueHour line
LacksDueHour(elem) ==
    /\ ~NeverSync(elem)
    /\ HasKey(elem, "dueDate")
    /\ elem.dueDate # None
    /\ ~DueHourLine(Strip(LastLine(elem.description.raw[1])))

InErrorList(elem) == \E j \in 1..Len(op_err) : op_err[j][1] = elem

FormatErrors == {Some("ValueError"), Some("IndexError")}

\* C7: once parse_workpackages has returned, every work package with a due
\* date whose description does not end in a dueHour=HH:MM:SS line is in the
\* error list and has no parsed record, and no format error ends the run.
MissingDueHourFails ==
    pc # "start" =>
        /\ \A k \in 1..Len(workpackages) :
              LacksDueHour(workpackages[k]) =>
                  /\ InErrorList(workpackages[k])
                  /\ ~HasKey(parsed_wps, workpackages[k].id)
        /\ exc \notin FormatErrors

\* the error recorded for id in the list err of the loop that visited q
ErrorOf(id, q, err) ==
    IF \E j \in 1..Len(q) : q[j] = id
    THEN err[CHOOSE j \in 1..Len(q) : q[j] = id]
    ELSE None

Malformed(id) == ~wp_to_event(parsed_wps[id], LocalOffset).ok

\* C8: a format error of wp_to_event never leaves synchronize_wps: the run
\* reaches its end, every id of the three sets is visited, and every id of
\* the create phase, and of the update phase when updated_at differs, whose
\* payload cannot be built has an error in the error list of its phase.
PayloadErrorRecorded ==
    /\ Partitioned => pc # "crashed"
    /\ pc = "done" =>
          /\ Visits(visited.create, to_create_set)
          /\ Visits(visited.delete, to_delete_set)
          /\ Visits(visited.update, may_update_set)
          /\ \A id \in to_create_set :
                Malformed(id) =>
                    ErrorOf(id, visited.create, to_create_err) # None
          /\ \A id \in may_update_set :
                (Malformed(id) /\ NeedsUpdate(parsed_wps[id], parsed_events[id]))
                    => ErrorOf(id, visited.update, may_update_err) # None

\* the call that read_events made in this run failed
ListFailed ==
    \E i \in 1..Len(calls) :
        calls[i].run = run /\ calls[i].op = "list" /\ ~calls[i].ok

\* C9: after a failed list call the run of main raises nothing, in
\* parse_events or later.
ListFailureHandled == ListFailed => (pc # "crashed" /\ exc = None)

\* due date and due hour as stated: the parts of createdAt without a due
\* date, else the due date and the text after the last "=" of the last line
DueAsStated(elem, rec) ==
    IF elem.dueDate = None
    THEN /\ rec.due_date = SubSeq(elem.createdAt, 1, 10)
         /\ rec.due_hour = SubSeq(elem.createdAt, 12, 19)
    ELSE /\ rec.due_date = elem.dueDate[1]
         /\ rec.due_hour = AfterLast(LastLine(elem.description.raw[1]), "=")

\* the same with the blanks around the text after the last "=" removed
DueAsStripped(elem, rec) ==
    IF elem.dueDate = None
    THEN /\ rec.due_date = SubSeq(elem.createdAt, 1, 10)
         /\ rec.due_hour = SubSeq(elem.createdAt, 12, 19)
    ELSE /\ rec.due_date = elem.dueDate[1]
         /\ rec.due_hour =
                Strip(AfterLast(LastLine(elem.description.raw[1]), "="))

\* a work package that parse_workpackages maps: synchronized and with a
\* dueDate field
Eligible(elem) == ~NeverSync(elem) /\ HasKey(elem, "dueDate")

\* C10 as stated: every eligible work package has a parsed record whose
\* due_date and due_hour are the date and the time of day of createdAt
\* when it has no due date, and else its due date and the text after the
\* last "=" of the last line of its raw description.
DueResolvedAsStated ==
    pc # "start" =>
        \A k \in 1..Len(workpackages) :
            Eligible(workpackages[k]) =>
                /\ HasKey(parsed_wps, workpackages[k].id)
                /\ DueAsStated(workpackages[k], parsed_wps[workpackages[k].id])

\* C10 amended: the same, where due_hour of a work package with a due date
\* is the text after the last "=" of the last line with leading and
\* trailing whitespace removed.
DueResolved ==
    pc # "start" =>
        \A k \in 1..Len(workpackages) :
            Eligible(workpackages[k]) =>
                /\ HasKey(parsed_wps, workpackages[k].id)
                /\ DueAsStripped(workpackages[k], parsed_wps[workpackages[k].id])

\* parse_workpackages has mapped a work package without a due date that
\* has a dueHour line, and one whose dueHour line ends in a blank
DueResolvedWitness ==
    /\ pc = "wps_parsed"
    /\ \E k \in 1..Len(workpackages) :
          /\ Eligible(workpackages[k])
          /\ workpackages[k].dueDate = None
          /\ DueHourLine(LastLine(workpackages[k].description.raw[1]))
    /\ \E k \in 1..Len(workpackages) :
          /\ Eligible(workpackages[k])
          /\ workpackages[k].dueDate # None
          /\ ~DueAsStated(workpackages[k], parsed_wps[workpackages[k].id])

\* the line of text that is n lines before the end of text (0: the last)
RECURSIVE LineFromEnd(_, _)
LineFromEnd(text, n) ==
    IF n = 0 THEN LastLine(text)
    ELSE IF LastIndexOf(text, "\n", Len(text)) = 0 THEN None
    ELSE LineFromEnd(SubSeq(text, 1, LastIndexOf(text, "\n", Len(text)) - 1),
                     n - 1)

EndsWith(text, tail) ==
    /\ Len(text) >= Len(tail)
    /\ SubSeq(text, Len(text) - Len(tail) + 1, Len(text)) = tail

\* the body as stated: a line break after the description
BodyAsStated(W, body) ==
    /\ body = W.description \o "\n" \o "Parent=" \o W.parent \o "\n"
              \o W.assignee \o "\n" \o W.updated_at
    /\ LineFromEnd(body, 0) = W.updated_at
    /\ LineFromEnd(body, 1) = W.assignee
    /\ LineFromEnd(body, 2) = "Parent=" \o W.parent

\* the body of the code: Parent= follows the description on the same line
BodyAsBuilt(W, body) ==
    /\ body = W.description \o "Parent=" \o W.parent \o "\n"
              \o W.assignee \o "\n" \o W.updated_at
    /\ LineFromEnd(body, 0) = W.updated_at
    /\ LineFromEnd(body, 1) = W.assignee
    /\ LineFromEnd(body, 2) = LastLine(W.description) \o "Parent=" \o W.parent
    /\ EndsWith(LineFromEnd(body, 2), "Parent=" \o W.parent)

\* the calls of the current run that carry a payload of wp_to_event
PayloadCalls ==
    {i \in 1..Len(calls) : calls[i].run = run /\ calls[i].body # None}

\* the last call was made in the current run and carries a payload
PayloadSent ==
    /\ calls # <<>>
    /\ Last(calls).run = run
    /\ Last(calls).body # None

BuiltAsStated(W, built) == built.ok => BodyAsStated(W, built.event.description)

BuiltAsBuilt(W, built) == built.ok => BodyAsBuilt(W, built.event.description)

\* C11 as stated: the description of the payload that wp_to_event builds
\* for a parsed work package, and of every payload sent to the sink, is the
\* description of the work package, a line break, Parent= and the parent, a
\* line break, the assignee, a line break and updated_at, so that its last
\* three lines are Parent=<parent>, the assignee and updated_at.
BodyFormatAsStated ==
    /\ pc = "wps_parsed" =>
          \A id \in DOMAIN parsed_wps :
              BuiltAsStated(parsed_wps[id],
                            wp_to_event(parsed_wps[id], LocalOffset))
    /\ PayloadSent =>
          BodyAsStated(parsed_wps[Last(calls).wp_id[1]],
                       Last(calls).body[1].description)

\* C11 amended: the description of the payload that wp_to_event builds
\* for a parsed work package, and of every payload sent to the sink, is the
\* description of the work package directly followed by Parent= and the
\* parent, a line break, the assignee, a line break and updated_at; its
\* last line is updated_at, the line before is the assignee, and the line
\* before that is the last line of the description followed by
\* Parent=<parent>.
BodyFormat ==
    /\ pc = "wps_parsed" =>
          \A id \in DOMAIN parsed_wps :
              BuiltAsBuilt(parsed_wps[id],
                           wp_to_event(parsed_wps[id], LocalOffset))
    /\ PayloadSent =>
          BodyAsBuilt(parsed_wps[Last(calls).wp_id[1]],
                      Last(calls).body[1].description)

\* an insert and an update were sent in this run, for a work package with
\* a parent and for one without
BodyFormatWitness ==
    /\ \E i \in PayloadCalls : calls[i].op = "insert"
    /\ \E i \in PayloadCalls : calls[i].op = "update"
    /\ \E i \in PayloadCalls :
          parsed_wps[calls[i].wp_id[1]].parent = "No parent"
    /\ \E i \in PayloadCalls :
          parsed_wps[calls[i].wp_id[1]].parent # "No parent"

\* the number of conditions of the three that hold
Count3(a, b, c) ==
    (IF a THEN 1 ELSE 0) + (IF b THEN 1 ELSE 0) + (IF c THEN 1 ELSE 0)

\* the entries of the error list are pairs of a work package and an error
ErrorPairs ==
    \A j \in 1..Len(op_err) :
        /\ Len(op_err[j]) = 2
        /\ \E k \in 1..Len(workpackages) : op_err[j][1] = workpackages[k]
        /\ op_err[j][2] \in {"KeyError", "ValueError", "IndexError",
                             "AttributeError", "TypeError"}

\* the list q without its k-th element
Without(q, k) == SubSeq(q, 1, k - 1) \o SubSeq(q, k + 1, Len(q))

\* C12: when parse_workpackages has returned, and it always returns, every
\* work package is in exactly one of three outcomes: not synchronized, in
\* parsed_wps under its id, or in the error list paired with its error; and
\* parsed_wps is what it would be without the work packages in the error
\* list.
OneOutcomeEach ==
    /\ pc = "wps_parsed" =>
          /\ ErrorPairs
          /\ \A k \in 1..Len(workpackages) :
                /\ Count3(NeverSync(workpackages[k]),
                          HasKey(parsed_wps, workpackages[k].id),
                          InErrorList(workpackages[k])) = 1
                /\ InErrorList(workpackages[k]) =>
                      parsed_wps =
                          parse_workpackages(Without(workpackages, k)).parsed_wps
    /\ pc = "wps_parsed" => exc = None

\* parse_workpackages has returned an error for one work package and a
\* record for another that comes after it in the list
OneOutcomeWitness ==
    /\ pc = "wps_parsed"
    /\ Len(workpackages) = 2
    /\ InErrorList(workpackages[1])
    /\ HasKey(parsed_wps, workpackages[2].id)

\* synchronize_wps has returned or was left by an exception
Finished == pc = "done" \/ (pc = "crashed" /\ all_events # None)

\* the insert, delete and update calls of this run, without their outcome
IssuedCalls ==
    {Sig(calls[i].op, calls[i].wp_id, calls[i].event_id, calls[i].body) :
        i \in {j \in 1..Len(calls) : calls[j].run = run /\ calls[j].op # "list"}}

\* an event without the id the sink gave it
NoId(e) == [k \in (DOMAIN e) \ {"id"} |-> e[k]]

Content(cal) == {NoId(cal[i]) : i \in 1..Len(cal)}

SameContent(cal, other) ==
    Len(cal) = Len(other) /\ Content(cal) = Content(other)

\* C13: whatever the order in which the iterations of the three loops are
\* run, the first run of synchronize_wps issues the sink calls that the
\* order of the code issues, with the same operation, event id and payload
\* for each id, and when every call is applied the calendar ends with the
\* events that the order of the code leaves.
InterleavingsAgree ==
    (run = 1 /\ Finished) =>
        /\ IssuedCalls = SequentialCalls(parsed_wps, parsed_events)
        /\ failures = 0 =>
              SameContent(calendar,
                          SequentialCalendar(all_events[1], parsed_wps,
                                             parsed_events))

\* the work package id that the title of an event carries, when it has one
TitleId(e) ==
    IF HasKey(e, "summary") THEN ParseInt(Split(e.summary, ":")[1])
    ELSE [ok |-> FALSE, exc |-> "KeyError"]

\* the positions of the calendar whose event carries id in its title
EventsOf(id) ==
    {i \in 1..Len(calendar) : TitleId(calendar[i]).ok /\ TitleId(calendar[i]).v = id}

\* C14: when the first run has ended with every sink call applied, the
\* calendar holds exactly one event for the id of every parsed work
\* package, and every event whose title carries an id carries the id of a
\* parsed work package.
Converged ==
    (run = 1 /\ pc = "done" /\ failures = 0) =>
        /\ \A id \in DOMAIN parsed_wps : Cardinality(EventsOf(id)) = 1
        /\ \A i \in 1..Len(calendar) :
              TitleId(calendar[i]).ok =>
                  TitleId(calendar[i]).v \in DOMAIN parsed_wps

====
